---- MODULE Spec2Model ----
(***************************************************************************)
(* Stripe payment-failure monitor (src/index.js): an express application   *)
(* with an in-memory activity log (recentLogs), an alert sender           *)
(* (sendEmailAlert) and five request handlers.  Handlers run on one        *)
(* thread; a handler gives up control only at an await (the customer       *)
(* lookup, the mail submission, the return of sendEmailAlert), so every    *)
(* action below is one run of code between two awaits.                     *)
(***************************************************************************)
EXTENDS Integers, Sequences, FiniteSets, TLC

(* Bounds of the model *)
MaxRequests == 2      \* requests followed one by one (ids 1..MaxRequests)
MaxWarmup == 97       \* rejected deliveries arriving back to back before them

(* Program constants *)
LogCap == 100         \* recentLogs.length > 100 -> pop
LogsLimit == 50       \* recentLogs.slice(0, 50)
StatusOK == 200
StatusBadRequest == 400
StatusServerError == 500

Requests == 1..MaxRequests

VARIABLES
    listening,    \* the app.listen callback has run
    recentLogs,   \* the activity log, newest first
    history,      \* every entry ever passed to log(), oldest first (ghost)
    reqs,         \* the request handlers, by request id
    nreq,         \* number of requests that have arrived
    warm          \* number of warm-up deliveries that have arrived

vars == <<listening, recentLogs, history, reqs, nreq, warm>>

-----------------------------------------------------------------------------
(* JavaScript values.  A string field that is undefined is Undef, a number  *)
(* field that is undefined is AbsentNum, and NonString stands for a         *)
(* currency that is not a string (a JSON number).                          *)
Undef == "undefined"
NonString == "<number>"
AbsentNum == 0 - 1

\* a || b on strings and on numbers: a when it is truthy, else b
Truthy(s) == s # Undef /\ s # ""
TruthyNum(n) == n # AbsentNum /\ n # 0
Or(a, b) == IF Truthy(a) THEN a ELSE b
OrNum(a, b) == IF TruthyNum(a) THEN a ELSE b
Or3(a, b, c) == Or(Or(a, b), c)

FailureTypes ==
    {"payment_intent.payment_failed", "invoice.payment_failed", "charge.failed"}
OtherType == "customer.created"
EventTypes == FailureTypes \cup {OtherType}

\* a type filter that lets every event through
IsFailureTypeAny(t) == t # Undef

\* lines 173-175: the event-type filter
IsFailureType(t) ==
    \/ t = "payment_intent.payment_failed"
    \/ t = "invoice.payment_failed"
    \/ t = "charge.failed"

-----------------------------------------------------------------------------
(* event.data.object, flattened: lpe_code is last_payment_error?.code,      *)
(* pmt0 is payment_method_types?.[0], pm_type is payment_method?.type,      *)
(* source_type is source?.type.  present = FALSE: event.data.object (or     *)
(* event.data) is missing.                                                  *)
EventObject(id, pi, amount, due, cur, fc, fm, lpe, pmt0, pm, src, cus) ==
    [present |-> TRUE, id |-> id, payment_intent |-> pi,
     amount |-> amount, amount_due |-> due, currency |-> cur,
     failure_code |-> fc, failure_message |-> fm,
     lpe_code |-> IF lpe THEN "lpe_code" ELSE Undef,
     lpe_message |-> IF lpe THEN "lpe_message" ELSE Undef,
     pmt0 |-> pmt0, pm_type |-> pm, source_type |-> src,
     customer |-> cus, created |-> 1700000000]

NoObject ==
    [EventObject(Undef, Undef, AbsentNum, AbsentNum, Undef, Undef, Undef,
                 FALSE, Undef, Undef, Undef, Undef)
     EXCEPT !.present = FALSE, !.created = AbsentNum]

AllObjects ==
    { EventObject(id, pi, amount, due, cur, fc, fm, lpe, pmt0, pm, src, cus) :
        id \in {Undef, "pi_1"}, pi \in {Undef, "pi_2"},
        amount \in {AbsentNum, 0, 1999}, due \in {AbsentNum, 500},
        cur \in {Undef, "usd", NonString},
        fc \in {Undef, "card_declined"}, fm \in {Undef, "declined"},
        lpe \in BOOLEAN, pmt0 \in {Undef, "card"},
        pm \in {Undef, "sepa_debit"}, src \in {Undef, "ach_debit"},
        cus \in {Undef, "cus_1"} } \cup {NoObject}

\* the payloads of the requests followed in Spec
IntentObject ==
    EventObject("pi_1", Undef, 1999, AbsentNum, "usd", Undef, Undef, TRUE,
                "card", Undef, Undef, Undef)
InvoiceObject ==
    EventObject("in_1", "pi_2", AbsentNum, 500, "usd", Undef, Undef, FALSE,
                Undef, Undef, Undef, "cus_1")
ChargeObject ==
    EventObject("ch_1", "pi_2", 0, AbsentNum, NonString, "card_declined",
                "declined", FALSE, Undef, "card", Undef, "cus_1")
ObjectOf(type) ==
    CASE type = "payment_intent.payment_failed" -> IntentObject
      [] type = "invoice.payment_failed" -> InvoiceObject
      [] OTHER -> ChargeObject

\* the deliveries of Spec: each failure type with the object of its kind, a
\* failure event with no object, another type, and unsigned bodies of either
\* sort
Delivery(sigOK, type, obj) == [sigOK |-> sigOK, type |-> type, obj |-> obj]
Deliveries ==
    {Delivery(TRUE, t, ObjectOf(t)) : t \in FailureTypes}
    \cup {Delivery(TRUE, "invoice.payment_failed", NoObject),
          Delivery(TRUE, OtherType, IntentObject),
          Delivery(FALSE, OtherType, IntentObject),
          Delivery(FALSE, "charge.failed", ChargeObject)}

-----------------------------------------------------------------------------
(* paymentData *)
NoData ==
    [built |-> FALSE, payment_intent_id |-> Undef, amount |-> AbsentNum,
     currency |-> Undef, failure_code |-> Undef, failure_message |-> Undef,
     payment_method_type |-> Undef, created |-> AbsentNum,
     customer_name |-> Undef, customer_email |-> Undef]

\* lines 181-193: the paymentData literal of the webhook handler
Normalize(eventData) ==
    [built |-> TRUE,
     payment_intent_id |-> Or(eventData.id, eventData.payment_intent),
     amount |-> OrNum(eventData.amount, eventData.amount_due),
     currency |-> eventData.currency,
     failure_code |-> Or(eventData.failure_code, eventData.lpe_code),
     failure_message |-> Or(eventData.failure_message, eventData.lpe_message),
     payment_method_type |->
         Or3(eventData.pmt0, eventData.pm_type, eventData.source_type),
     created |-> eventData.created,
     customer_name |-> "",
     customer_email |-> ""]

\* lines 138-148: testPaymentData
testPaymentData ==
    [built |-> TRUE, payment_intent_id |-> "pi_test", amount |-> 2000,
     currency |-> "usd", failure_code |-> "card_declined",
     failure_message |-> "Your card was declined.",
     payment_method_type |-> "card", created |-> 1700000000,
     customer_name |-> "Test Customer", customer_email |-> "test@example.com"]

\* line 55: paymentData.currency?.toUpperCase() raises a TypeError when the
\* currency is neither undefined nor a string
RenderThrows(paymentData) == paymentData.currency = NonString

-----------------------------------------------------------------------------
(* The activity log.  st is [recentLogs, history]; the timestamp of an      *)
(* entry is a logical clock, rid (ghost) the request that logged it, 0 for  *)
(* the server itself and for warm-up deliveries.                           *)
\* log() trimming one entry too late
logTrimLate(st, message, level, rid) ==
    LET logEntry == [timestamp |-> Len(st.history) + 1, level |-> level,
                     message |-> message, rid |-> rid]
        unshifted == <<logEntry>> \o st.recentLogs
    IN  [recentLogs |-> IF Len(unshifted) > LogCap + 1
                        THEN SubSeq(unshifted, 1, Len(unshifted) - 1)
                        ELSE unshifted,
         history |-> Append(st.history, logEntry)]

\* log() trimming with shift() instead of pop()
logShift(st, message, level, rid) ==
    LET logEntry == [timestamp |-> Len(st.history) + 1, level |-> level,
                     message |-> message, rid |-> rid]
        unshifted == <<logEntry>> \o st.recentLogs
    IN  [recentLogs |-> IF Len(unshifted) > LogCap
                        THEN SubSeq(unshifted, 2, Len(unshifted))
                        ELSE unshifted,
         history |-> Append(st.history, logEntry)]

\* lines 37-43: log
log(st, message, level, rid) ==
    LET logEntry == [timestamp |-> Len(st.history) + 1, level |-> level,
                     message |-> message, rid |-> rid]
        unshifted == <<logEntry>> \o st.recentLogs
    IN  [recentLogs |-> IF Len(unshifted) > LogCap
                        THEN SubSeq(unshifted, 1, Len(unshifted) - 1)
                        ELSE unshifted,
         history |-> Append(st.history, logEntry)]

Logs == [recentLogs |-> recentLogs, history |-> history]

\* recentLogs.slice(-50)
LogsSliceTail(logs) ==
    SubSeq(logs, IF Len(logs) < LogsLimit THEN 1 ELSE Len(logs) - LogsLimit + 1,
           Len(logs))

\* line 130: recentLogs.slice(0, 50)
LogsSlice(logs) ==
    SubSeq(logs, 1, IF Len(logs) < LogsLimit THEN Len(logs) ELSE LogsLimit)

-----------------------------------------------------------------------------
(* Requests *)
NoBody == [received |-> FALSE, type |-> Undef, success |-> FALSE, text |-> Undef]

IdleRequest ==
    [pc |-> "idle", path |-> "none", verified |-> FALSE, type |-> Undef,
     obj |-> NoObject, pd |-> NoData,
     lookups |-> 0, lookup |-> "none",
     alerts |-> 0, mails |-> 0, mail |-> "none", result |-> "none",
     status |-> 0, replies |-> 0, body |-> NoBody,
     logs |-> <<>>, total |-> 0, at |-> 0]

Init ==
    /\ listening = FALSE
    /\ recentLogs = <<>>
    /\ history = <<>>
    /\ reqs = [r \in Requests |-> IdleRequest]
    /\ nreq = 0
    /\ warm = 0

-----------------------------------------------------------------------------
(* Handler code between two awaits, as functions from the handler's request *)
(* record rq and the log st to the pair [rq, st] they leave behind.         *)

\* res.json / res.send: one response on the request
Respond(rq, status, body) ==
    [rq EXCEPT !.pc = "done", !.status = status, !.replies = @ + 1,
               !.body = body]

\* lines 46-89 and 93-96: sendEmailAlert up to its await.  Rendering the
\* message may raise, and the catch block then logs and returns false;
\* otherwise gmail.users.messages.send is called once and awaited.
sendEmailAlert(rq, st, r) ==
    IF RenderThrows(rq.pd)
    THEN [rq |-> [rq EXCEPT !.alerts = @ + 1, !.result = "false",
                            !.pc = "returned"],
          st |-> log(st, "Failed to send email alert", "error", r)]
    ELSE [rq |-> [rq EXCEPT !.alerts = @ + 1, !.mails = @ + 1, !.pc = "mail"],
          st |-> st]

\* lines 206-209: log the failure being processed, call sendEmailAlert
ProcessFailure(rq, st, r) ==
    sendEmailAlert(rq, log(st, "Processing payment failure", "info", r), r)

\* the verification error handed to the error middleware instead
VerificationFailedAsServerError(rq, st, r) ==
    [rq |-> Respond(rq, StatusServerError,
                    [NoBody EXCEPT !.text = "Internal server error"]),
     st |-> log(st, "Unhandled error", "error", r)]

\* lines 167-170: the catch block of constructEvent
VerificationFailed(rq, st, r) ==
    [rq |-> Respond(rq, StatusBadRequest,
                    [NoBody EXCEPT !.text = "Webhook Error"]),
     st |-> log(st, "Webhook signature verification failed", "error", r)]

\* line 222: res.json({ received: true, type: event.type })
Acknowledge(rq) ==
    Respond(rq, StatusOK, [NoBody EXCEPT !.received = TRUE, !.type = rq.type])

\* lines 160-209: the webhook handler up to its first await.  rq carries
\* the delivery: verified (constructEvent returned), type, obj.
HandleWebhook(rq, st, r) ==
    IF ~rq.verified
    THEN VerificationFailed(rq, st, r)
    ELSE LET st1 == log(st, "Received Stripe webhook event", "info", r) IN
         IF ~IsFailureType(rq.type)
         THEN [rq |-> Acknowledge(rq), st |-> st1]
         ELSE IF ~rq.obj.present
         THEN \* TypeError reading a property of undefined, caught at line 217
              [rq |-> Acknowledge(rq),
               st |-> log(st1, "Error processing payment failure event",
                          "error", r)]
         ELSE LET rq1 == [rq EXCEPT !.pd = Normalize(rq.obj)] IN
              IF Truthy(rq.obj.customer)
              THEN [rq |-> [rq1 EXCEPT !.lookups = @ + 1, !.pc = "lookup"],
                    st |-> st1]
              ELSE ProcessFailure(rq1, st1, r)

\* lines 198-200 and 206-209: stripeClient.customers.retrieve resolved
CustomerRetrieved(rq, st, r) ==
    ProcessFailure([rq EXCEPT !.lookup = "ok",
                              !.pd.customer_name = "Jane Doe",
                              !.pd.customer_email = "jane@example.com"],
                   st, r)

\* a lookup failure that reaches the outer catch block of line 217
CustomerFailedAbort(rq, st, r) ==
    [rq |-> Acknowledge([rq EXCEPT !.lookup = "failed"]),
     st |-> log(st, "Error processing payment failure event", "error", r)]

\* lines 201-203 and 206-209: stripeClient.customers.retrieve rejected
CustomerFailed(rq, st, r) ==
    ProcessFailure([rq EXCEPT !.lookup = "failed"],
                   log(st, "Failed to retrieve customer info", "error", r), r)

\* sendEmailAlert without its return true
MailSentNoReturn(rq, st, r) ==
    [rq |-> [rq EXCEPT !.mail = "ok", !.result = "false", !.pc = "returned"],
     st |-> log(st, "Email alert sent successfully", "info", r)]

\* lines 91-92: the mail API resolved
MailSent(rq, st, r) ==
    [rq |-> [rq EXCEPT !.mail = "ok", !.result = "true", !.pc = "returned"],
     st |-> log(st, "Email alert sent successfully", "info", r)]

\* a rejected submission that is submitted again
MailFailedRetry(rq, st, r) ==
    [rq |-> [rq EXCEPT !.mail = "failed", !.mails = @ + 1],
     st |-> log(st, "Failed to send email alert", "error", r)]

\* lines 93-96: the mail API rejected; no second attempt
MailFailed(rq, st, r) ==
    [rq |-> [rq EXCEPT !.mail = "failed", !.result = "false",
                       !.pc = "returned"],
     st |-> log(st, "Failed to send email alert", "error", r)]

\* a failed alert reported to the sender as a server error
WebhookResumeFailing(rq, st, r) ==
    IF rq.result = "true"
    THEN [rq |-> Acknowledge(rq),
          st |-> log(st, "Successfully processed payment failure event",
                     "info", r)]
    ELSE [rq |-> Respond(rq, StatusServerError,
                         [NoBody EXCEPT !.text = "Internal server error"]),
          st |-> log(st, "Failed to send alert for payment failure",
                     "error", r)]

\* lines 211-222: the webhook handler after sendEmailAlert returned
WebhookResume(rq, st, r) ==
    [rq |-> Acknowledge(rq),
     st |-> IF rq.result = "true"
            THEN log(st, "Successfully processed payment failure event",
                     "info", r)
            ELSE log(st, "Failed to send alert for payment failure",
                     "error", r)]

\* lines 152-156: the test handler after sendEmailAlert returned
TestResume(rq, st, r) ==
    [rq |-> Respond(rq, StatusOK,
                    [NoBody EXCEPT !.success = (rq.result = "true"),
                                   !.text = IF rq.result = "true"
                                            THEN "Test alert sent successfully"
                                            ELSE "Failed to send test alert"]),
     st |-> st]

\* lines 135-150: the test handler up to its await
HandleTest(rq, st, r) ==
    sendEmailAlert([rq EXCEPT !.pd = testPaymentData],
                   log(st, "Manual test triggered", "info", r), r)

\* lines 226-229: the error-handling middleware
HandleError(rq, st, r) ==
    [rq |-> Respond(rq, StatusServerError,
                    [NoBody EXCEPT !.text = "Internal server error"]),
     st |-> log(st, "Unhandled error", "error", r)]

\* lines 128-133: GET /logs
HandleLogs(rq, st) ==
    [Respond(rq, StatusOK, NoBody)
     EXCEPT !.logs = LogsSlice(st.recentLogs),
            !.total = Len(st.recentLogs),
            !.at = Len(st.history)]

-----------------------------------------------------------------------------
(* Actions.  The traffic: after the server starts, either no or MaxWarmup    *)
(* unsigned deliveries arrive back to back (they fill the log to its cap),  *)
(* then MaxRequests requests of any kind arrive, each while at most one     *)
(* earlier handler is still suspended at an await.                          *)

Commit(r, out) ==
    /\ reqs' = [reqs EXCEPT ![r] = out.rq]
    /\ recentLogs' = out.st.recentLogs
    /\ history' = out.st.history

\* lines 233-237: the listen callback
Listen ==
    /\ ~listening
    /\ listening' = TRUE
    /\ LET st == log(log(log(Logs, "Stripe Payment Failure Monitor started",
                             "info", 0),
                         "Webhook endpoint: /webhook", "info", 0),
                     "Ready to monitor payment failures", "info", 0)
       IN  /\ recentLogs' = st.recentLogs
           /\ history' = st.history
    /\ UNCHANGED <<reqs, nreq, warm>>

\* A delivery with a bad signature, handled start to end (lines 160-170),
\* arriving before the requests that are followed one by one.
WarmupDelivery ==
    /\ listening
    /\ nreq = 0
    /\ warm < MaxWarmup
    /\ warm' = warm + 1
    /\ LET out == VerificationFailed(IdleRequest, Logs, 0)
       IN  /\ recentLogs' = out.st.recentLogs
           /\ history' = out.st.history
    /\ UNCHANGED <<listening, reqs, nreq>>

\* Request r arrives: the next request id, after no or a full warm-up, while
\* at most one earlier request is still in flight.
Arrives(r) ==
    /\ listening
    /\ r = nreq + 1
    /\ warm \in {0, MaxWarmup}
    /\ reqs[r].pc = "idle"
    /\ \A q \in Requests : q < r - 1 => reqs[q].pc = "done"
    /\ nreq' = nreq + 1
    /\ UNCHANGED <<listening, warm>>

\* POST /webhook
Webhook(r, sigOK, type, obj) ==
    /\ Arrives(r)
    /\ Commit(r, HandleWebhook([reqs[r] EXCEPT !.path = "webhook",
                                               !.verified = sigOK,
                                               !.type = type, !.obj = obj],
                               Logs, r))

\* POST /test
Test(r) ==
    /\ Arrives(r)
    /\ Commit(r, HandleTest([reqs[r] EXCEPT !.path = "test"], Logs, r))

\* a request whose body a middleware of lines 31-32 rejects
BadBody(r) ==
    /\ Arrives(r)
    /\ Commit(r, HandleError([reqs[r] EXCEPT !.path = "error"], Logs, r))

\* GET /logs
GetLogs(r) ==
    /\ Arrives(r)
    /\ reqs' = [reqs EXCEPT ![r] = HandleLogs([@ EXCEPT !.path = "logs"], Logs)]
    /\ UNCHANGED <<recentLogs, history>>

\* GET / (lines 100-117) and GET /health (lines 119-126)
GetStatic(r, path) ==
    /\ Arrives(r)
    /\ reqs' = [reqs EXCEPT ![r] = Respond([@ EXCEPT !.path = path],
                                           StatusOK, NoBody)]
    /\ UNCHANGED <<recentLogs, history>>

Resume(r) == UNCHANGED <<listening, nreq, warm>>

LookupResolves(r) ==
    /\ reqs[r].pc = "lookup"
    /\ Commit(r, CustomerRetrieved(reqs[r], Logs, r))
    /\ Resume(r)

LookupRejects(r) ==
    /\ reqs[r].pc = "lookup"
    /\ Commit(r, CustomerFailed(reqs[r], Logs, r))
    /\ Resume(r)

MailResolves(r) ==
    /\ reqs[r].pc = "mail"
    /\ Commit(r, MailSent(reqs[r], Logs, r))
    /\ Resume(r)

MailRejects(r) ==
    /\ reqs[r].pc = "mail"
    /\ Commit(r, MailFailed(reqs[r], Logs, r))
    /\ Resume(r)

AlertReturns(r) ==
    /\ reqs[r].pc = "returned"
    /\ Commit(r, IF reqs[r].path = "webhook"
                 THEN WebhookResume(reqs[r], Logs, r)
                 ELSE TestResume(reqs[r], Logs, r))
    /\ Resume(r)

Continue(r) ==
    \/ LookupResolves(r)
    \/ LookupRejects(r)
    \/ MailResolves(r)
    \/ MailRejects(r)
    \/ AlertReturns(r)

Next ==
    \/ Listen
    \/ WarmupDelivery
    \/ \E r \in Requests, d \in Deliveries : Webhook(r, d.sigOK, d.type, d.obj)
    \/ \E r \in Requests : Test(r)
    \/ \E r \in Requests : BadBody(r)
    \/ \E r \in Requests : GetLogs(r)
    \/ \E r \in Requests, path \in {"/", "/health"} : GetStatic(r, path)
    \/ \E r \in Requests : Continue(r)

Spec == Init /\ [][Next]_vars

\* Webhook deliveries alone, on a server that has just started.  Every
\* awaited call settles and the event loop runs the continuation.
NextWebhook ==
    \/ Listen
    \/ \E r \in Requests, d \in Deliveries : Webhook(r, d.sigOK, d.type, d.obj)
    \/ \E r \in Requests : Continue(r)

FairSpec ==
    Init /\ [][NextWebhook]_vars /\ \A r \in Requests : WF_vars(Continue(r))

\* One delivery of a failure event with any object of AllObjects.
NextNorm ==
    \/ Listen
    \/ /\ listening /\ nreq = 0
       /\ \E t \in FailureTypes, obj \in AllObjects : Webhook(1, TRUE, t, obj)
    \/ Continue(1)

NormSpec == Init /\ [][NextNorm]_vars

-----------------------------------------------------------------------------
(* Properties *)

Min(a, b) == IF a < b THEN a ELSE b

\* the positions in history of the entries request r logged
EntriesOf(r) == {i \in 1..Len(history) : history[i].rid = r}
EntriesWith(r, messages) ==
    {i \in EntriesOf(r) : history[i].message \in messages}

Done(r) == reqs[r].pc = "done"
VerifiedWebhook(r) == reqs[r].path = "webhook" /\ reqs[r].verified
FailureDelivery(r) == VerifiedWebhook(r) /\ reqs[r].type \in FailureTypes

\* C1: a webhook request whose signature verification fails is answered 400,
\* with no customer lookup, no alert and no mail submission, and logs exactly
\* one entry, at error level, whatever its body says.
C1_RejectedDelivery ==
    \A r \in Requests :
        (reqs[r].path = "webhook" /\ ~reqs[r].verified) =>
            /\ Done(r)
            /\ reqs[r].status = StatusBadRequest
            /\ reqs[r].replies = 1
            /\ reqs[r].lookups = 0
            /\ reqs[r].alerts = 0
            /\ reqs[r].mails = 0
            /\ ~reqs[r].pd.built
            /\ Cardinality(EntriesOf(r)) = 1
            /\ \A i \in EntriesOf(r) : history[i].level = "error"

C1_Witness ==
    \E r \in Requests :
        /\ reqs[r].path = "webhook" /\ ~reqs[r].verified /\ Done(r)
        /\ reqs[r].type \in FailureTypes
        /\ reqs[r].obj.present

\* C2: a webhook request whose signature verifies is answered at most once,
\* never with anything but 200 and {received: true, type}, and is eventually
\* answered, whatever the lookup, the mail submission and the processing do.
C2_VerifiedAcknowledged ==
    /\ [](\A r \in Requests :
            VerifiedWebhook(r) =>
                /\ reqs[r].replies <= 1
                /\ reqs[r].status \in {0, StatusOK}
                /\ Done(r) => /\ reqs[r].replies = 1
                              /\ reqs[r].status = StatusOK
                              /\ reqs[r].body.received
                              /\ reqs[r].body.type = reqs[r].type)
    /\ \A r \in Requests : VerifiedWebhook(r) ~> (VerifiedWebhook(r) /\ Done(r))

C2_Witness ==
    \E r, q \in Requests :
        /\ FailureDelivery(r) /\ Done(r) /\ ~reqs[r].obj.present
        /\ FailureDelivery(q) /\ Done(q)
        /\ reqs[q].lookup = "failed" /\ reqs[q].mail = "failed"
        /\ reqs[q].status = StatusOK

\* C3 as claimed: every answered delivery of a failure event has invoked the
\* mail API exactly once.
C3_AlwaysOneSubmission ==
    \A r \in Requests : (FailureDelivery(r) /\ Done(r)) => reqs[r].mails = 1

\* the deliveries whose processing raises nothing before the mail API call
Processable(r) ==
    reqs[r].obj.present /\ reqs[r].obj.currency # NonString

\* C3 amended: a delivery of a failure event invokes the mail API at most
\* once, and by the time it is answered exactly once when its object is
\* present and its currency is undefined or a string, and not at all
\* otherwise; a failed submission is not repeated.
C3_OneSubmission ==
    \A r \in Requests :
        FailureDelivery(r) =>
            /\ reqs[r].mails <= 1
            /\ reqs[r].pc \in {"returned", "done"} =>
                   reqs[r].mails = IF Processable(r) THEN 1 ELSE 0

C3_Witness ==
    \E r, q \in Requests :
        /\ r # q
        /\ FailureDelivery(r) /\ FailureDelivery(q) /\ Done(r) /\ Done(q)
        /\ reqs[r].type = reqs[q].type /\ reqs[r].obj = reqs[q].obj
        /\ reqs[r].mails = 1 /\ reqs[q].mails = 1
        /\ reqs[r].mail = "failed"

\* C4: a mail submission or a lookup on the webhook path belongs to a
\* verified delivery of a failure type; a verified delivery of another type
\* builds no paymentData, looks nothing up, sends nothing, logs exactly one
\* entry (the received-event entry) and is answered 200.
C4_OtherTypesIgnored ==
    \A r \in Requests :
        reqs[r].path = "webhook" =>
            /\ (reqs[r].mails > 0 \/ reqs[r].lookups > 0 \/ reqs[r].alerts > 0)
                   => (reqs[r].verified /\ reqs[r].type \in FailureTypes)
            /\ (reqs[r].verified /\ reqs[r].type \notin FailureTypes) =>
                   /\ Done(r)
                   /\ reqs[r].status = StatusOK
                   /\ ~reqs[r].pd.built
                   /\ Cardinality(EntriesOf(r)) = 1
                   /\ \A i \in EntriesOf(r) :
                          /\ history[i].message = "Received Stripe webhook event"
                          /\ history[i].level = "info"

C4_Witness ==
    \E r, q \in Requests :
        /\ VerifiedWebhook(r) /\ reqs[r].type = OtherType /\ Done(r)
        /\ FailureDelivery(q) /\ reqs[q].mails = 1

AlertMessages == {"Email alert sent successfully", "Failed to send email alert"}

\* C6: once sendEmailAlert has returned, its result is true exactly when the
\* mail API accepted the submission, and the call has logged exactly one
\* entry of its own: at info level when it returns true, at error level when
\* it returns false.  Until then it has logged none.  The /test handler
\* answers with success equal to that result.
C6_AlertResult ==
    \A r \in Requests :
        /\ (reqs[r].alerts > 0 /\ reqs[r].pc \in {"returned", "done"}) =>
               /\ reqs[r].alerts = 1
               /\ reqs[r].result \in {"true", "false"}
               /\ (reqs[r].result = "true") <=> (reqs[r].mail = "ok")
               /\ Cardinality(EntriesWith(r, AlertMessages)) = 1
               /\ \A i \in EntriesWith(r, AlertMessages) :
                      IF reqs[r].result = "true"
                      THEN /\ history[i].level = "info"
                           /\ history[i].message = "Email alert sent successfully"
                      ELSE /\ history[i].level = "error"
                           /\ history[i].message = "Failed to send email alert"
        /\ reqs[r].pc \in {"idle", "lookup", "mail"} =>
               EntriesWith(r, AlertMessages) = {}
        /\ (reqs[r].path = "test" /\ Done(r)) =>
               /\ reqs[r].status = StatusOK
               /\ reqs[r].replies = 1
               /\ reqs[r].body.success = (reqs[r].result = "true")

C6_Witness ==
    \E r, q \in Requests :
        /\ reqs[r].path = "test" /\ Done(r) /\ ~reqs[r].body.success
        /\ reqs[r].mail = "failed"
        /\ reqs[q].path = "test" /\ Done(q) /\ reqs[q].body.success

\* C7: the activity log never holds more than 100 entries, whichever way the
\* handlers' log calls interleave.
C7_LogBounded == Len(recentLogs) <= LogCap

C7_Witness ==
    /\ Len(recentLogs) = LogCap
    /\ Len(history) > LogCap + 2
    /\ \E r, q \in Requests :
           /\ r # q
           /\ reqs[r].pc \in {"lookup", "mail"}
           /\ reqs[q].pc \in {"lookup", "mail"}
           /\ EntriesOf(r) # {} /\ EntriesOf(q) # {}

\* C8: the activity log is the most recent min(n, 100) of the n entries
\* recorded so far, newest first.
C8_NewestFirst ==
    /\ Len(recentLogs) = Min(Len(history), LogCap)
    /\ \A i \in 1..Len(recentLogs) :
           recentLogs[i] = history[Len(history) + 1 - i]

C8_Witness ==
    /\ Len(history) = LogCap + 1
    /\ recentLogs[1].timestamp = LogCap + 1
    /\ recentLogs[LogCap].timestamp = 2

GetPaths == {"logs", "/", "/health"}

\* C9: GET /logs answers with the min(50, n) most recent entries of the log,
\* newest first, and total = n, the length of the log at that time; a GET
\* request logs nothing and leaves the log as it is.
C9_LogsQuery ==
    /\ [](\A r \in Requests :
            /\ reqs[r].path = "logs" =>
                   /\ Done(r) /\ reqs[r].status = StatusOK
                   /\ reqs[r].total = Min(reqs[r].at, LogCap)
                   /\ Len(reqs[r].logs) = Min(LogsLimit, reqs[r].total)
                   /\ \A i \in 1..Len(reqs[r].logs) :
                          reqs[r].logs[i] = history[reqs[r].at + 1 - i]
            /\ reqs[r].path \in GetPaths => EntriesOf(r) = {})
    /\ [][\A r \in Requests :
            (reqs[r].path = "none" /\ reqs'[r].path \in GetPaths) =>
                (recentLogs' = recentLogs /\ history' = history)]_vars

C9_Witness ==
    \E r \in Requests :
        /\ reqs[r].path = "logs" /\ Done(r)
        /\ reqs[r].total = LogCap /\ Len(reqs[r].logs) = LogsLimit
        /\ reqs[r].logs[1].rid # 0

\* C10: paymentData takes, field by field, the first field the object has:
\* id else payment_intent; amount (0 included) else amount_due; failure_code
\* and failure_message else those of last_payment_error;
\* payment_method_types[0] else payment_method.type else source.type.
C10_FirstPresentWins ==
    \A r \in Requests :
        reqs[r].pd.built /\ reqs[r].path = "webhook" =>
            LET o == reqs[r].obj
                pd == reqs[r].pd
            IN  /\ pd.payment_intent_id =
                       IF o.id # Undef THEN o.id ELSE o.payment_intent
                /\ pd.amount =
                       IF o.amount # AbsentNum THEN o.amount ELSE o.amount_due
                /\ pd.failure_code =
                       IF o.failure_code # Undef THEN o.failure_code
                       ELSE o.lpe_code
                /\ pd.failure_message =
                       IF o.failure_message # Undef THEN o.failure_message
                       ELSE o.lpe_message
                /\ pd.payment_method_type =
                       IF o.pmt0 # Undef THEN o.pmt0
                       ELSE IF o.pm_type # Undef THEN o.pm_type
                       ELSE o.source_type

====
